---- MODULE Spec2Model ----
(***************************************************************************)
(* card-transactions: the ledger normalizer computeMonthlySpendFromCsvText *)
(* (lib/transactions) as a state machine.                                  *)
(*                                                                         *)
(* Representation.  A JavaScript string is a sequence of characters (each  *)
(* a one-character TLA+ string); a literal piece of a template string is   *)
(* carried as one element.  "T | undefined" is the set {} (undefined) or   *)
(* {v}.  A Date is its getTime() value, counted in minutes since the       *)
(* epoch.  Amounts are integers (whole units); floating-point rounding is  *)
(* outside the model.  A CSV row object is a function from the column      *)
(* names it has to strings.                                                *)
(***************************************************************************)
EXTENDS Integers, Sequences, FiniteSets, TLC

(* ------------------------------ bounds --------------------------------- *)
MaxRows == 3
MaxErrorRows == 1
MaxErrors == 12
MaxCalls == 2
MaxTimeRows == 2
MaxUploads == 2

(* --------------------------- string helpers ---------------------------- *)
Digits == <<"0", "1", "2", "3", "4", "5", "6", "7", "8", "9">>

IsDigit(c) == \E k \in 1..10 : Digits[k] = c

DigitVal(c) == (CHOOSE k \in 1..10 : Digits[k] = c) - 1

IsSpace(c) == c = " "

(* UTF-16 code units of the characters that yearMonth strings are made of *)
CharCode(c) == IF c = "-" THEN 45 ELSE 48 + DigitVal(c)

RECURSIVE TrimStart(_)
TrimStart(s) ==
  IF s # <<>> /\ IsSpace(Head(s)) THEN TrimStart(Tail(s)) ELSE s

RECURSIVE TrimEnd(_)
TrimEnd(s) ==
  IF s # <<>> /\ IsSpace(s[Len(s)]) THEN TrimEnd(SubSeq(s, 1, Len(s) - 1)) ELSE s

(* String.prototype.trim *)
Trim(s) == TrimEnd(TrimStart(s))

AllDigits(s) == s # <<>> /\ \A k \in 1..Len(s) : IsDigit(s[k])

RECURSIVE DigitsVal(_)
DigitsVal(s) ==
  IF s = <<>> THEN 0 ELSE 10 * DigitsVal(SubSeq(s, 1, Len(s) - 1)) + DigitVal(s[Len(s)])

RECURSIVE NatStr(_)
NatStr(n) == IF n < 10 THEN <<Digits[n + 1]>> ELSE NatStr(n \div 10) \o <<Digits[(n % 10) + 1]>>

(* String(n) of an integer *)
NumStr(n) == IF n < 0 THEN <<"-">> \o NatStr(0 - n) ELSE NatStr(n)

(* s.padStart(2, '0') *)
PadStart2(s) == IF Len(s) < 2 THEN <<"0">> \o s ELSE s

(* the < of two JavaScript strings: lexicographic by code unit *)
RECURSIVE StrLess(_, _)
StrLess(a, b) ==
  IF b = <<>> THEN FALSE
  ELSE IF a = <<>> THEN TRUE
  ELSE IF CharCode(Head(a)) # CharCode(Head(b)) THEN CharCode(Head(a)) < CharCode(Head(b))
  ELSE StrLess(Tail(a), Tail(b))

Abs(n) == IF n < 0 THEN 0 - n ELSE n

(* ------------------------- Number and parseNumber ---------------------- *)
(* Number(s) of an already trimmed string, on the decimal-integer part of  *)
(* the numeric grammar: [+-]digits is finite, the literal Infinity is an   *)
(* infinity, the empty string is 0, anything else is NaN.                  *)
ToNumber(s) ==
  IF s = <<>> THEN [kind |-> "finite", v |-> 0]
  ELSE IF AllDigits(s) THEN [kind |-> "finite", v |-> DigitsVal(s)]
  ELSE IF Head(s) = "-" /\ AllDigits(Tail(s)) THEN [kind |-> "finite", v |-> 0 - DigitsVal(Tail(s))]
  ELSE IF Head(s) = "+" /\ AllDigits(Tail(s)) THEN [kind |-> "finite", v |-> DigitsVal(Tail(s))]
  ELSE IF s \in {<<"Infinity">>, <<"-", "Infinity">>, <<"+", "Infinity">>} THEN [kind |-> "inf", v |-> 0]
  ELSE [kind |-> "NaN", v |-> 0]

(* value is {} when the field is null/undefined, else {string} *)
parseNumber(value) ==
  IF value = {} THEN {}
  ELSE LET s == Trim(CHOOSE x \in value : TRUE)
           n == ToNumber(s)
       IN  IF s = <<>> THEN {}
           ELSE IF n.kind = "finite" THEN {n.v} ELSE {}

(* ------------------------------ calendar ------------------------------- *)
(* days since 1970-01-01 of a proleptic Gregorian date (Date.UTC) *)
DaysFromCivil(y, m, d) ==
  LET yy  == IF m <= 2 THEN y - 1 ELSE y
      era == yy \div 400
      yoe == yy - era * 400
      mp  == IF m > 2 THEN m - 3 ELSE m + 9
      doy == (153 * mp + 2) \div 5 + d - 1
      doe == yoe * 365 + yoe \div 4 - yoe \div 100 + doy
  IN  era * 146097 + doe - 719468

(* the UTC year and month (1..12) of a day number *)
CivilFromDays(z0) ==
  LET z   == z0 + 719468
      era == z \div 146097
      doe == z - era * 146097
      yoe == (doe - doe \div 1460 + doe \div 36524 - doe \div 146096) \div 365
      doy == doe - (365 * yoe + yoe \div 4 - yoe \div 100)
      mp  == (5 * doy + 2) \div 153
      m   == IF mp < 10 THEN mp + 3 ELSE mp - 9
  IN  [y |-> yoe + era * 400 + (IF m <= 2 THEN 1 ELSE 0), m |-> m]

MinutesPerDay == 1440

getUTCFullYear(t) == CivilFromDays(t \div MinutesPerDay).y

(* 0-based, as Date.prototype.getUTCMonth *)
getUTCMonth(t) == CivilFromDays(t \div MinutesPerDay).m - 1

(* ------------------------------ new Date ------------------------------- *)
Num2(s, k) == 10 * DigitVal(s[k]) + DigitVal(s[k + 1])

Num4(s, k) == 100 * Num2(s, k) + Num2(s, k + 2)

IsDatePart(s) ==
  /\ Len(s) >= 10
  /\ \A k \in {1, 2, 3, 4, 6, 7, 9, 10} : IsDigit(s[k])
  /\ s[5] = "-" /\ s[8] = "-"
  /\ Num2(s, 6) \in 1..12
  /\ Num2(s, 9) \in 1..31

IsTimePart(s) ==
  /\ Len(s) >= 16
  /\ s[11] \in {"T", " "}
  /\ \A k \in {12, 13, 15, 16} : IsDigit(s[k])
  /\ s[14] = ":"
  /\ Num2(s, 12) \in 0..23
  /\ Num2(s, 15) \in 0..59

UtcMinutes(s) ==
  DaysFromCivil(Num4(s, 1), Num2(s, 6), Num2(s, 9)) * MinutesPerDay
    + (IF Len(s) >= 16 THEN 60 * Num2(s, 12) + Num2(s, 15) ELSE 0)

(* new Date(s).getTime() on the forms YYYY-MM-DD, YYYY-MM-DD[T ]HH:MM and  *)
(* YYYY-MM-DD[T ]HH:MMZ; {} is NaN (Invalid Date).  A date-only form is    *)
(* UTC midnight; a date-time form without offset is a local time, so its   *)
(* UTC value is the wall-clock value minus the host's offset tzOffset      *)
(* (minutes east of UTC); a Z suffix makes it UTC.  Every other string is  *)
(* taken as unparseable, but for YYYY-MM-DD H:MM (one-digit hour): that    *)
(* form is outside the standard date-time format, its parsing is           *)
(* implementation-defined, and an engine either rejects it or reads it as  *)
(* a local time (legacyForms).                                             *)
IsLegacyTimePart(s) ==
  /\ Len(s) = 15
  /\ s[11] = " "
  /\ IsDigit(s[12]) /\ s[13] = ":" /\ IsDigit(s[14]) /\ IsDigit(s[15])
  /\ Num2(s, 14) \in 0..59

LegacyUtcMinutes(s) ==
  DaysFromCivil(Num4(s, 1), Num2(s, 6), Num2(s, 9)) * MinutesPerDay
    + 60 * DigitVal(s[12]) + Num2(s, 14)

NewDate(s, tzOffset, legacyForms) ==
  IF Len(s) = 10 /\ IsDatePart(s) THEN {UtcMinutes(s)}
  ELSE IF Len(s) = 16 /\ IsDatePart(s) /\ IsTimePart(s) THEN {UtcMinutes(s) - tzOffset}
  ELSE IF Len(s) = 17 /\ IsDatePart(s) /\ IsTimePart(s) /\ s[17] = "Z" THEN {UtcMinutes(s)}
  ELSE IF legacyForms /\ IsDatePart(s) /\ IsLegacyTimePart(s) THEN {LegacyUtcMinutes(s) - tzOffset}
  ELSE {}

(* ------------------------------ yearMonthUtc --------------------------- *)
yearMonthUtc(d) ==
  LET y == getUTCFullYear(d)
      m == getUTCMonth(d) + 1
  IN  NumStr(y) \o <<"-">> \o PadStart2(NumStr(m))

(* ------------------------------ updateDateRange ------------------------ *)
(* range is [earliest, latest], each {} or {Date}; a Date object is always *)
(* truthy, so !range.earliest is exactly "undefined"                       *)
updateDateRange_LatestIsLast(range, d) ==
  LET e == IF range.earliest = {} \/ \E x \in range.earliest : d < x THEN {d} ELSE range.earliest
  IN  [earliest |-> e, latest |-> {d}]

updateDateRange(range, d) ==
  LET e == IF range.earliest = {} \/ \E x \in range.earliest : d < x THEN {d} ELSE range.earliest
      l == IF range.latest = {} \/ \E x \in range.latest : d > x THEN {d} ELSE range.latest
  IN  [earliest |-> e, latest |-> l]

(* ------------------------------ normalizeRow --------------------------- *)
(* row.c : {} when the row has no such column *)
Field(row, c) == IF c \in DOMAIN row THEN {row[c]} ELSE {}

(* (row.c ?? '').trim() *)
TrimOrEmpty(row, c) == IF c \in DOMAIN row THEN Trim(row[c]) ELSE <<>>

REFUND == <<"R", "E", "F", "U", "N", "D">>
POS_TX == <<"P", "O", "S", "_", "T", "X">>
APPROVED == <<"A", "P", "P", "R", "O", "V", "E", "D">>
DECLINED == <<"D", "E", "C", "L", "I", "N", "E", "D">>
ATM_TX == <<"A", "T", "M">>

HasTimeRegex_TwoDigitsBefore(s) ==
  \E k \in 1..Len(s) :
    /\ s[k] = ":" /\ k + 2 <= Len(s) /\ IsDigit(s[k + 1]) /\ IsDigit(s[k + 2])
    /\ k > 2 /\ IsDigit(s[k - 1]) /\ IsDigit(s[k - 2])

(* /:\d{2}/.test(s) *)
HasTimeRegex(s) ==
  \E k \in 1..Len(s) : s[k] = ":" /\ k + 2 <= Len(s) /\ IsDigit(s[k + 1]) /\ IsDigit(s[k + 2])

WarnMissingDate == <<"Row missing date">>

WarnInvalidDate(dateStr) == <<"Invalid date: ">> \o dateStr

WarnMissingAmount(dateStr) == <<"Row missing amount fields for ">> \o dateStr

(* a ?? b on number | undefined *)
Coalesce(a, b) == IF a # {} THEN a ELSE b

AmountUsd_NoAbs(type, raw) == IF type = REFUND THEN 0 - raw ELSE raw

AmountUsd(type, raw) ==
  LET abs == Abs(raw)
  IN  IF type = REFUND THEN 0 - abs ELSE IF type = POS_TX THEN abs ELSE abs

ResolveRaw(row) == Coalesce(parseNumber(Field(row, "accountAmount")), parseNumber(Field(row, "USDAmount")))

normalizeRow_AmountFirst(row, tzOffset, legacyForms) ==
  LET dateStr == TrimOrEmpty(row, "date")
      d == NewDate(dateStr, tzOffset, legacyForms)
      raw == ResolveRaw(row)
  IN  IF raw = {} THEN [warning |-> WarnMissingAmount(dateStr)]
      ELSE IF dateStr = <<>> THEN [warning |-> WarnMissingDate]
      ELSE IF d = {} THEN [warning |-> WarnInvalidDate(dateStr)]
      ELSE LET t == CHOOSE x \in d : TRUE
               type == TrimOrEmpty(row, "type")
           IN  [date |-> t, yearMonth |-> yearMonthUtc(t), status |-> TrimOrEmpty(row, "status"),
                type |-> type,
                merchantName |-> IF TrimOrEmpty(row, "merchantName") = <<>> THEN <<"(unknown merchant)">>
                                 ELSE TrimOrEmpty(row, "merchantName"),
                amountUsd |-> AmountUsd(type, CHOOSE x \in raw : TRUE),
                hasTime |-> HasTimeRegex(dateStr)]

normalizeRow(row, tzOffset, legacyForms) ==
  LET dateStr == TrimOrEmpty(row, "date")
      d == NewDate(dateStr, tzOffset, legacyForms)
      raw == ResolveRaw(row)
  IN  IF dateStr = <<>> THEN [warning |-> WarnMissingDate]
      ELSE IF d = {} THEN [warning |-> WarnInvalidDate(dateStr)]
      ELSE IF raw = {} THEN [warning |-> WarnMissingAmount(dateStr)]
      ELSE LET t == CHOOSE x \in d : TRUE
               type == TrimOrEmpty(row, "type")
           IN  [date |-> t, yearMonth |-> yearMonthUtc(t), status |-> TrimOrEmpty(row, "status"),
                type |-> type,
                merchantName |-> IF TrimOrEmpty(row, "merchantName") = <<>> THEN <<"(unknown merchant)">>
                                 ELSE TrimOrEmpty(row, "merchantName"),
                amountUsd |-> AmountUsd(type, CHOOSE x \in raw : TRUE),
                hasTime |-> HasTimeRegex(dateStr)]

(* --------------------------- totals by month --------------------------- *)
(* a Map<string, number> is the sequence of its entries in insertion order *)
MapHas(m, k) == \E j \in 1..Len(m) : m[j].yearMonth = k

(* totalsByMonth.get(k) ?? 0 *)
MapGetOr0(m, k) == IF MapHas(m, k) THEN m[CHOOSE j \in 1..Len(m) : m[j].yearMonth = k].totalUsd ELSE 0

MapSet(m, k, v) ==
  IF MapHas(m, k)
  THEN [j \in 1..Len(m) |-> IF m[j].yearMonth = k THEN [yearMonth |-> k, totalUsd |-> v] ELSE m[j]]
  ELSE Append(m, [yearMonth |-> k, totalUsd |-> v])

(* for (const tx of transactions) totalsByMonth.set(...), after the first n *)
RECURSIVE TotalsByMonth_Overwrite(_, _)
TotalsByMonth_Overwrite(txs, n) ==
  IF n = 0 THEN <<>>
  ELSE LET m == TotalsByMonth_Overwrite(txs, n - 1)
           tx == txs[n]
       IN  MapSet(m, tx.yearMonth, tx.amountUsd)

RECURSIVE TotalsByMonth(_, _)
TotalsByMonth(txs, n) ==
  IF n = 0 THEN <<>>
  ELSE LET m == TotalsByMonth(txs, n - 1)
           tx == txs[n]
       IN  MapSet(m, tx.yearMonth, MapGetOr0(m, tx.yearMonth) + tx.amountUsd)

(* the comparator of the sort: -1, 0 or 1 *)
CompareYearMonth(a, b) ==
  IF StrLess(a.yearMonth, b.yearMonth) THEN 0 - 1
  ELSE IF StrLess(b.yearMonth, a.yearMonth) THEN 1 ELSE 0

(* insert e after the last element that does not compare greater (stable) *)
RECURSIVE InsertSorted(_, _)
InsertSorted(sorted, e) ==
  IF sorted = <<>> THEN <<e>>
  ELSE IF CompareYearMonth(e, sorted[Len(sorted)]) < 0
       THEN Append(InsertSorted(SubSeq(sorted, 1, Len(sorted) - 1), e), sorted[Len(sorted)])
       ELSE Append(sorted, e)

RECURSIVE SortByYearMonth(_, _)
SortByYearMonth(entries, n) ==
  IF n = 0 THEN <<>> ELSE InsertSorted(SortByYearMonth(entries, n - 1), entries[n])

MonthTotals(txs) ==
  LET totalsByMonth == TotalsByMonth(txs, Len(txs))
  IN  SortByYearMonth(totalsByMonth, Len(totalsByMonth))

(* ----------------------------- decode errors --------------------------- *)
MaxShownErrors == 10

ErrorLine(e) ==
  e.code \o <<": ">> \o e.message
    \o (IF e.row # {} THEN <<" (row ">> \o NumStr(CHOOSE n \in e.row : TRUE) \o <<")">> ELSE <<>>)

OverflowLine(n) == <<"...and ">> \o NumStr(n) \o <<" more parse errors">>

DecodeWarnings_NoCap(errors) == [j \in 1..Len(errors) |-> ErrorLine(errors[j])]

DecodeWarnings(errors) ==
  LET shown == IF Len(errors) < MaxShownErrors THEN Len(errors) ELSE MaxShownErrors
  IN  [j \in 1..shown |-> ErrorLine(errors[j])]
        \o (IF Len(errors) > MaxShownErrors THEN <<OverflowLine(Len(errors) - MaxShownErrors)>> ELSE <<>>)

(* ------------------------------- inputs -------------------------------- *)
(* what Papa.parse hands back: parsed.data and parsed.errors.  The decoder *)
(* is a library; its output is an input of the model.                      *)
MkRow(r) == [c \in DOMAIN r |-> r[c]]

D_Jan05 == <<"2", "0", "2", "4", "-", "0", "1", "-", "0", "5">>
D_Jan20Padded == <<" ", "2", "0", "2", "4", "-", "0", "1", "-", "2", "0", " ">>
D_Jan31Local == <<"2", "0", "2", "4", "-", "0", "1", "-", "3", "1", " ", "2", "3", ":", "3", "0">>
D_Feb10Z == <<"2", "0", "2", "4", "-", "0", "2", "-", "1", "0", "T", "0", "8", ":", "0", "0", "Z">>
D_Year999 == <<"0", "9", "9", "9", "-", "1", "2", "-", "0", "1">>
D_Garbage == <<"n", "/", "a">>
D_Blank == <<" ", " ">>
M_Cafe == <<"C", "a", "f", "e">>

RowEmpty == [c \in {} |-> <<>>]

RowCoffee ==
  MkRow([date |-> D_Jan05, status |-> APPROVED, type |-> POS_TX, merchantName |-> M_Cafe,
         accountAmount |-> <<"-", "4">>])

RowRefund ==
  MkRow([date |-> D_Jan20Padded, status |-> <<" ">> \o APPROVED \o <<" ">>, type |-> <<" ">> \o REFUND,
         merchantName |-> <<" ">>, USDAmount |-> <<" ", "1", "0", " ">>])

RowDeclined ==
  MkRow([date |-> D_Feb10Z, status |-> DECLINED, type |-> POS_TX, merchantName |-> M_Cafe,
         accountAmount |-> <<"0">>, USDAmount |-> <<"5">>])

RowMissingDate ==
  MkRow([date |-> D_Blank, status |-> APPROVED, type |-> POS_TX, accountAmount |-> <<"x">>])

RowInvalidDate ==
  MkRow([date |-> D_Garbage, status |-> APPROVED, type |-> POS_TX, USDAmount |-> <<>>])

RowMissingAmount ==
  MkRow([date |-> D_Jan05, status |-> APPROVED, type |-> POS_TX, accountAmount |-> <<"x">>,
         USDAmount |-> <<"Infinity">>])

RowLocal ==
  MkRow([date |-> D_Jan31Local, status |-> APPROVED, type |-> POS_TX, merchantName |-> M_Cafe,
         accountAmount |-> <<>>, USDAmount |-> <<"-", "3">>])

RowOld ==
  MkRow([date |-> D_Year999, status |-> APPROVED, type |-> REFUND, accountAmount |-> <<"-", "2">>])

RowAtm ==
  MkRow([date |-> D_Feb10Z, status |-> APPROVED, type |-> ATM_TX, accountAmount |-> <<"x">>,
         USDAmount |-> <<"-", "6">>])

D_Jan05OneDigitHour == <<"2", "0", "2", "4", "-", "0", "1", "-", "0", "5", " ", "9", ":", "3", "0">>

RowOneDigitHour ==
  MkRow([date |-> D_Jan05OneDigitHour, status |-> APPROVED, type |-> POS_TX, merchantName |-> M_Cafe,
         accountAmount |-> <<"-", "8">>])

(* the rows of the runs on date strings with and without a time of day *)
TimeRows == {RowEmpty, RowCoffee, RowDeclined, RowLocal, RowOneDigitHour}

Rows ==
  {RowEmpty, RowCoffee, RowRefund, RowDeclined, RowMissingDate, RowInvalidDate,
   RowMissingAmount, RowLocal, RowOld, RowAtm}

SeqsUpTo(S, n) == UNION {[1..k -> S] : k \in 0..n}

ErrFields(n) == [code |-> <<"TooFewFields">>, message |-> <<"Too few fields">>, row |-> {n}]

ErrDelimiter ==
  [code |-> <<"UndetectableDelimiter">>, message |-> <<"Unable to auto-detect delimiting character">>,
   row |-> {}]

(* k decode errors; the one at position p carries no row number *)
ErrorList(k, p) == [j \in 1..k |-> IF j = p THEN ErrDelimiter ELSE ErrFields(j)]

(* the host's offset from UTC in minutes: UTC and UTC-5 *)
TimeZones == {0, 0 - 300}

(* normalizeRow over the input domain, tabulated once: Normalized(r, z) is  *)
(* normalizeRow(r, z, l) for every input row, zone and engine              *)
NormalizeTable ==
  [l \in BOOLEAN |-> [z \in TimeZones |-> [r \in Rows \cup TimeRows |-> normalizeRow(r, z, l)]]]

(* ------------------------------- state --------------------------------- *)
VARIABLES
  tz,            \* the host's local time zone offset
  lenient,       \* whether the host's engine parses the YYYY-MM-DD H:MM form
  parsed,        \* [data, errors]: the decoder's output for the text
  pc,            \* "call", "loop" or "done"
  calls,         \* number of invocations started on this text
  idx,           \* the position of the for loop in rows
  warnings, includedRows, transactions, range,
  normalized,    \* the loop's local: {} before it is assigned
  result,        \* {} or {the ParseResult returned}
  prev,          \* the result of the previous invocation on the same text
  fileName,      \* App state: {} (null) or {name}
  appResult,     \* App state "result": {} (null) or {ParseResult}
  error,         \* App state: {} (null) or {message}
  selectedYearMonth,  \* App state: {} (null) or {yearMonth}
  uploads,       \* the files handed to the dropzone, in order
  reads,         \* positions in uploads whose file.text() is still pending
  delivered      \* positions in uploads in the order onFileText got them

coreVars == <<tz, lenient, parsed, pc, calls, idx, warnings, includedRows, transactions, range,
              normalized, result, prev>>

appVars == <<fileName, appResult, error, selectedYearMonth, uploads, reads, delivered>>

vars == <<coreVars, appVars>>

Normalized(row, tzOffset) == NormalizeTable[lenient][tzOffset][row]

(* const rows = parsed.data ?? [] *)
rows == parsed.data

EmptyRange == [earliest |-> {}, latest |-> {}]

InitLocals ==
  /\ pc = "call" /\ calls = 1
  /\ idx = 1
  /\ warnings = <<>> /\ includedRows = 0 /\ transactions = <<>> /\ range = EmptyRange
  /\ normalized = {} /\ result = {} /\ prev = {}
  /\ fileName = {} /\ appResult = {} /\ error = {} /\ selectedYearMonth = {}
  /\ uploads = <<>> /\ reads = {} /\ delivered = <<>>

(* no date string of Rows has an implementation-defined form, so the      *)
(* engine's choice changes nothing in these runs                           *)
Init ==
  /\ tz \in TimeZones
  /\ lenient = FALSE
  /\ parsed \in [data : SeqsUpTo(Rows, MaxRows), errors : {<<>>, <<ErrDelimiter>>}]
  /\ InitLocals

InitErrors ==
  /\ tz \in TimeZones
  /\ lenient = FALSE
  /\ parsed \in [data : SeqsUpTo(Rows, MaxErrorRows),
                 errors : {ErrorList(k, p) : k \in 0..MaxErrors, p \in {0, 2}}]
  /\ InitLocals

(* ------------------------------ operations ----------------------------- *)
(* Papa.parse, the decode-error warnings and the locals before the loop *)
Parse ==
  /\ pc = "call"
  /\ warnings' = DecodeWarnings(parsed.errors)
  /\ includedRows' = 0
  /\ transactions' = <<>>
  /\ range' = EmptyRange
  /\ idx' = 1
  /\ pc' = "loop"
  /\ UNCHANGED <<tz, lenient, parsed, calls, normalized, result, prev>>
  /\ UNCHANGED appVars

InLoop == pc = "loop" /\ idx <= Len(rows)

IsEmptyRow(row) == Cardinality(DOMAIN row) = 0

Included_AnyType(n) == n.status = APPROVED

Included(n) == n.status = APPROVED /\ (n.type = POS_TX \/ n.type = REFUND)

(* if (!row || Object.keys(row).length === 0) continue *)
LoopSkipEmpty ==
  /\ InLoop
  /\ IsEmptyRow(rows[idx])
  /\ idx' = idx + 1
  /\ normalized' = {}
  /\ UNCHANGED <<tz, lenient, parsed, pc, calls, warnings, includedRows, transactions, range, result, prev>>
  /\ UNCHANGED appVars

LoopWarning ==
  /\ InLoop
  /\ ~IsEmptyRow(rows[idx])
  /\ LET n == Normalized(rows[idx], tz)
     IN  /\ "warning" \in DOMAIN n
         /\ normalized' = {n}
         /\ warnings' = Append(warnings, n.warning)
  /\ idx' = idx + 1
  /\ UNCHANGED <<tz, lenient, parsed, pc, calls, includedRows, transactions, range, result, prev>>
  /\ UNCHANGED appVars

LoopInclude ==
  /\ InLoop
  /\ ~IsEmptyRow(rows[idx])
  /\ LET n == Normalized(rows[idx], tz)
     IN  /\ "warning" \notin DOMAIN n
         /\ Included(n)
         /\ normalized' = {n}
         /\ includedRows' = includedRows + 1
         /\ transactions' = Append(transactions, n)
         /\ range' = updateDateRange(range, n.date)
  /\ idx' = idx + 1
  /\ UNCHANGED <<tz, lenient, parsed, pc, calls, warnings, result, prev>>
  /\ UNCHANGED appVars

LoopIgnore_Warns ==
  /\ InLoop
  /\ ~IsEmptyRow(rows[idx])
  /\ LET n == Normalized(rows[idx], tz)
     IN  /\ "warning" \notin DOMAIN n
         /\ ~Included(n)
         /\ normalized' = {n}
         /\ warnings' = Append(warnings, <<"Row ignored">>)
  /\ idx' = idx + 1
  /\ UNCHANGED <<tz, lenient, parsed, pc, calls, includedRows, transactions, range, result, prev>>
  /\ UNCHANGED appVars

LoopIgnore ==
  /\ InLoop
  /\ ~IsEmptyRow(rows[idx])
  /\ LET n == Normalized(rows[idx], tz)
     IN  /\ "warning" \notin DOMAIN n
         /\ ~Included(n)
         /\ normalized' = {n}
  /\ idx' = idx + 1
  /\ UNCHANGED <<tz, lenient, parsed, pc, calls, warnings, includedRows, transactions, range, result, prev>>
  /\ UNCHANGED appVars

TotalRows(rs) == Len(rs)

(* the aggregation, the counts and the return *)
Return ==
  /\ pc = "loop" /\ idx > Len(rows)
  /\ LET monthTotals == MonthTotals(transactions)
         totalRows == TotalRows(rows)
         ignoredRows == totalRows - includedRows
     IN  result' = {[summary |-> [totalRows |-> totalRows, includedRows |-> includedRows,
                                  ignoredRows |-> ignoredRows, earliest |-> range.earliest,
                                  latest |-> range.latest, warnings |-> warnings],
                     monthTotals |-> monthTotals,
                     transactions |-> transactions]}
  /\ pc' = "done"
  /\ UNCHANGED <<tz, lenient, parsed, calls, idx, warnings, includedRows, transactions, range,
                 normalized, prev>>
  /\ UNCHANGED appVars

(* the same text is handed to the function again, on a host in any zone *)
Reinvoke ==
  /\ pc = "done" /\ calls < MaxCalls
  /\ tz' \in TimeZones
  /\ prev' = result
  /\ calls' = calls + 1
  /\ pc' = "call"
  /\ idx' = 1 /\ warnings' = <<>> /\ includedRows' = 0
  /\ transactions' = <<>> /\ range' = EmptyRange /\ normalized' = {} /\ result' = {}
  /\ UNCHANGED <<lenient, parsed>>
  /\ UNCHANGED appVars

Next ==
  \/ Parse
  \/ LoopSkipEmpty
  \/ LoopWarning
  \/ LoopInclude
  \/ LoopIgnore
  \/ Return
  \/ Reinvoke

Spec == Init /\ [][Next]_vars

SpecErrors == InitErrors /\ [][Next]_vars

(* ------------------------- the function as a whole -------------------- *)
(* the locals after the first n iterations of the for loop *)
RECURSIVE LoopAfter(_, _, _, _)
LoopAfter(p, n, z, l) ==
  IF n = 0
  THEN [warnings |-> DecodeWarnings(p.errors), includedRows |-> 0, transactions |-> <<>>,
        range |-> EmptyRange]
  ELSE LET a == LoopAfter(p, n - 1, z, l)
           row == p.data[n]
           nr == NormalizeTable[l][z][row]
       IN  IF IsEmptyRow(row) THEN a
           ELSE IF "warning" \in DOMAIN nr THEN [a EXCEPT !.warnings = Append(@, nr.warning)]
           ELSE IF Included(nr)
                THEN [a EXCEPT !.includedRows = @ + 1, !.transactions = Append(@, nr),
                               !.range = updateDateRange(@, nr.date)]
                ELSE a

(* the ParseResult returned for the decoder's output p on a host (z, l) *)
computeMonthlySpendFromCsvText(p, z, l) ==
  LET a == LoopAfter(p, Len(p.data), z, l)
      totalRows == TotalRows(p.data)
  IN  [summary |-> [totalRows |-> totalRows, includedRows |-> a.includedRows,
                    ignoredRows |-> totalRows - a.includedRows, earliest |-> a.range.earliest,
                    latest |-> a.range.latest, warnings |-> a.warnings],
       monthTotals |-> MonthTotals(a.transactions),
       transactions |-> a.transactions]

(* ---------------------------------- App -------------------------------- *)
(* an uploaded file: its name and what the function does with its text:    *)
(* thrown is {} when it returns (then parsed is the decoder's output) and  *)
(* {the value thrown} when it throws                                       *)
FileA ==
  [name |-> <<"a.csv">>, thrown |-> {}, parsed |-> [data |-> <<RowCoffee>>, errors |-> <<>>]]

FileB ==
  [name |-> <<"b.csv">>, thrown |-> {},
   parsed |-> [data |-> <<RowRefund, RowDeclined>>, errors |-> <<ErrDelimiter>>]]

FileBad ==
  [name |-> <<"bad.csv">>, thrown |-> {[isError |-> TRUE, message |-> <<"Unexpected end of input">>]},
   parsed |-> [data |-> <<>>, errors |-> <<>>]]

Files == {FileA, FileB, FileBad}

(* e instanceof Error ? e.message : 'Failed to parse CSV' *)
ErrorMessage(e) == IF e.isError THEN e.message ELSE <<"Failed to parse CSV">>

(* FileDropzone.onDrop / onChange: handleFile(file) starts file.text() *)
onDrop(f) ==
  /\ Len(uploads) < MaxUploads
  /\ uploads' = Append(uploads, f)
  /\ reads' = reads \cup {Len(uploads) + 1}
  /\ UNCHANGED <<fileName, appResult, error, selectedYearMonth, delivered>>
  /\ UNCHANGED coreVars

(* the catch branch forgets setResult(null) *)
onFileText_KeepsResult(i) ==
  /\ i \in reads
  /\ reads' = reads \ {i}
  /\ delivered' = Append(delivered, i)
  /\ fileName' = {uploads[i].name}
  /\ selectedYearMonth' = {}
  /\ IF uploads[i].thrown = {}
     THEN /\ appResult' = {computeMonthlySpendFromCsvText(uploads[i].parsed, tz, lenient)}
          /\ error' = {}
     ELSE /\ appResult' = appResult
          /\ error' = {ErrorMessage(CHOOSE e \in uploads[i].thrown : TRUE)}
  /\ UNCHANGED uploads
  /\ UNCHANGED coreVars

(* handleFile resumes after await file.text() and calls App.onFileText *)
onFileText(i) ==
  /\ i \in reads
  /\ reads' = reads \ {i}
  /\ delivered' = Append(delivered, i)
  /\ fileName' = {uploads[i].name}
  /\ selectedYearMonth' = {}
  /\ IF uploads[i].thrown = {}
     THEN /\ appResult' = {computeMonthlySpendFromCsvText(uploads[i].parsed, tz, lenient)}
          /\ error' = {}
     ELSE /\ appResult' = {}
          /\ error' = {ErrorMessage(CHOOSE e \in uploads[i].thrown : TRUE)}
  /\ UNCHANGED uploads
  /\ UNCHANGED coreVars

(* a click on a bar of the chart, which is rendered only with a result *)
onSelectYearMonth(ym) ==
  /\ appResult # {}
  /\ \E r \in appResult : \E j \in 1..Len(r.monthTotals) : r.monthTotals[j].yearMonth = ym
  /\ selectedYearMonth' = {ym}
  /\ UNCHANGED <<fileName, appResult, error, uploads, reads, delivered>>
  /\ UNCHANGED coreVars

(* Escape, a click on the overlay, or the breakdown's clear button *)
ClearSelection ==
  /\ selectedYearMonth # {}
  /\ selectedYearMonth' = {}
  /\ UNCHANGED <<fileName, appResult, error, uploads, reads, delivered>>
  /\ UNCHANGED coreVars

YearMonths == {yearMonthUtc(t) : t \in UNION {NewDate(D_Jan05, z, FALSE) \cup NewDate(Trim(D_Jan20Padded), z, FALSE) : z \in TimeZones}}

NextApp ==
  \/ \E f \in Files : onDrop(f)
  \/ \E i \in 1..MaxUploads : onFileText(i)
  \/ \E ym \in YearMonths : onSelectYearMonth(ym)
  \/ ClearSelection

InitApp ==
  /\ tz \in TimeZones
  /\ lenient = FALSE
  /\ parsed = [data |-> <<>>, errors |-> <<>>]
  /\ InitLocals

SpecApp == InitApp /\ [][NextApp]_vars

(* runs on date strings with and without a time of day, on either engine *)
InitTime ==
  /\ tz \in TimeZones
  /\ lenient \in BOOLEAN
  /\ parsed \in [data : SeqsUpTo(TimeRows, MaxTimeRows), errors : {<<>>}]
  /\ InitLocals

SpecTime == InitTime /\ [][Next]_vars

(* =============================== claims ================================ *)
Done == pc = "done" /\ result # {}

Res == CHOOSE r \in result : TRUE

RECURSIVE SumAmounts(_, _)
SumAmounts(txs, n) == IF n = 0 THEN 0 ELSE SumAmounts(txs, n - 1) + txs[n].amountUsd

RECURSIVE SumTotals(_, _)
SumTotals(mts, n) == IF n = 0 THEN 0 ELSE SumTotals(mts, n - 1) + mts[n].totalUsd

TxsOfMonth(txs, ym) == SelectSeq(txs, LAMBDA t : t.yearMonth = ym)

(* C1: in the returned result the month totals add up to the signed sum of *)
(* all transaction amounts, the months listed are exactly the months of    *)
(* the transactions, each listed once, and each month's total is the       *)
(* signed sum of that month's transactions.                                *)
C1_MonthTotalsAreSignedSums ==
  Done =>
    LET mts == Res.monthTotals
        txs == Res.transactions
    IN  /\ SumTotals(mts, Len(mts)) = SumAmounts(txs, Len(txs))
        /\ {mts[j].yearMonth : j \in 1..Len(mts)} = {txs[j].yearMonth : j \in 1..Len(txs)}
        /\ \A j, k \in 1..Len(mts) : mts[j].yearMonth = mts[k].yearMonth => j = k
        /\ \A j \in 1..Len(mts) :
             LET m == TxsOfMonth(txs, mts[j].yearMonth)
             IN  mts[j].totalUsd = SumAmounts(m, Len(m))

(* a purchase and a refund share a month, and a second month exists *)
C1_Witness ==
  /\ Done
  /\ Len(Res.monthTotals) >= 2
  /\ \E j, k \in 1..Len(Res.transactions) :
       /\ j # k
       /\ Res.transactions[j].yearMonth = Res.transactions[k].yearMonth
       /\ Res.transactions[j].amountUsd > 0
       /\ Res.transactions[k].amountUsd < 0

(* the decoded rows that are handed to normalizeRow *)
ReachedRows(rs) == SelectSeq(rs, LAMBDA r : ~IsEmptyRow(r))

Normalizes(r) == "warning" \notin DOMAIN Normalized(r, tz)

StatusOf(r) == IF "status" \in DOMAIN r THEN Trim(r["status"]) ELSE <<>>

TypeOf(r) == IF "type" \in DOMAIN r THEN Trim(r["type"]) ELSE <<>>

Qualifies(r) ==
  /\ ~IsEmptyRow(r)
  /\ Normalizes(r)
  /\ StatusOf(r) = APPROVED
  /\ TypeOf(r) \in {POS_TX, REFUND}

(* C2: the returned transactions are the normalized forms of exactly the   *)
(* rows that normalize with status APPROVED and type POS_TX or REFUND, one *)
(* each, in input order, and includedRows is their number.                 *)
C2_TransactionsAreTheQualifyingRows ==
  Done =>
    LET q == SelectSeq(rows, Qualifies)
        txs == Res.transactions
    IN  /\ Len(txs) = Len(q)
        /\ \A j \in 1..Len(q) : txs[j] = Normalized(q[j], tz)
        /\ Res.summary.includedRows = Len(txs)

(* a qualifying row after a row of another type, then another qualifying one *)
C2_Witness ==
  /\ Done
  /\ Len(rows) = 3
  /\ Qualifies(rows[1]) /\ rows[2] = RowAtm /\ Qualifies(rows[3])
  /\ rows[1] # rows[3]
  /\ Len(Res.transactions) = 2

(* C3: includedRows + ignoredRows = totalRows, and totalRows counts only   *)
(* the records handed to normalization: a record skipped as empty is in    *)
(* neither totalRows nor ignoredRows.                                      *)
C3_TotalRowsCountsReachedRows ==
  Done =>
    /\ Res.summary.includedRows + Res.summary.ignoredRows = Res.summary.totalRows
    /\ Res.summary.totalRows = Len(ReachedRows(rows))
    /\ Res.summary.ignoredRows = Len(ReachedRows(rows)) - Res.summary.includedRows

(* "the field parses to a finite number" *)
FiniteField(r, c) ==
  /\ c \in DOMAIN r
  /\ Trim(r[c]) # <<>>
  /\ ToNumber(Trim(r[c])).kind = "finite"

SourceAmount(r) ==
  IF FiniteField(r, "accountAmount") THEN ToNumber(Trim(r["accountAmount"])).v
  ELSE ToNumber(Trim(r["USDAmount"])).v

(* the row of the iteration that has just run *)
LastRow == rows[idx - 1]

JustNormalized ==
  /\ pc = "loop" /\ idx > 1 /\ normalized # {}
  /\ \A n \in normalized : "warning" \notin DOMAIN n

(* what the claim expects for each row of the input domain; 0 stands in   *)
(* for the rows without any amount, which do not normalize                 *)
ExpectedAmount ==
  [r \in Rows \cup TimeRows |->
     IF IsEmptyRow(r) \/ (~FiniteField(r, "accountAmount") /\ ~FiniteField(r, "USDAmount")) THEN 0
     ELSE IF TypeOf(r) = REFUND THEN 0 - Abs(SourceAmount(r))
     ELSE Abs(SourceAmount(r))]

(* C4: a row that normalizes gets amountUsd = -|raw| when its type is      *)
(* REFUND and +|raw| otherwise, raw being accountAmount when that is a     *)
(* finite number and USDAmount otherwise; so included refunds are <= 0 and *)
(* included purchases >= 0.                                                *)
C4_AmountSign ==
  /\ JustNormalized => \A n \in normalized : n.amountUsd = ExpectedAmount[LastRow]
  /\ \A j \in 1..Len(transactions) :
       /\ transactions[j].type = REFUND => transactions[j].amountUsd <= 0
       /\ transactions[j].type = POS_TX => transactions[j].amountUsd >= 0

(* a refund with a negative source amount was included, and a row whose    *)
(* accountAmount is 0 kept the 0 although USDAmount is 5                   *)
C4_Witness ==
  /\ JustNormalized
  /\ LastRow = RowDeclined
  /\ \A n \in normalized : n.amountUsd = 0
  /\ \E j \in 1..Len(transactions) :
       transactions[j].type = REFUND /\ transactions[j].amountUsd = 0 - 2

Min(S) == CHOOSE x \in S : \A y \in S : x <= y

Max(S) == CHOOSE x \in S : \A y \in S : x >= y

(* C5: with included rows, earliest and latest are present and are the     *)
(* minimum and maximum date of the included transactions; with none, both  *)
(* are absent.                                                             *)
C5_DateRange ==
  Done =>
    LET txs == Res.transactions
        dates == {txs[j].date : j \in 1..Len(txs)}
    IN  IF Res.summary.includedRows > 0
        THEN /\ Res.summary.earliest = {Min(dates)}
             /\ Res.summary.latest = {Max(dates)}
             /\ Min(dates) <= Max(dates)
        ELSE Res.summary.earliest = {} /\ Res.summary.latest = {}

(* three included rows, the earliest one in the middle, and the range is   *)
(* a proper interval                                                       *)
C5_Witness ==
  /\ Done
  /\ Len(Res.transactions) = 3
  /\ Res.summary.earliest = {Res.transactions[2].date}
  /\ Res.summary.latest = {Res.transactions[1].date}
  /\ Res.summary.earliest # Res.summary.latest

C5_NoneIncludedWitness ==
  Done /\ Res.summary.includedRows = 0 /\ Len(ReachedRows(rows)) = 3

(* (year, month) of a date, as one number *)
MonthIndex(t) == 12 * getUTCFullYear(t) + getUTCMonth(t)

(* C6: monthTotals is strictly ascending by the yearMonth string, without  *)
(* duplicates, every yearMonth has the shape YYYY-MM, and an entry listed  *)
(* before another is the earlier UTC calendar month.                       *)
C6_StringOrderIsChronological ==
  Done =>
    LET mts == Res.monthTotals
        txs == Res.transactions
    IN  /\ \A j \in 1..(Len(mts) - 1) : StrLess(mts[j].yearMonth, mts[j + 1].yearMonth)
        /\ \A j \in 1..Len(txs) : Len(txs[j].yearMonth) = 7
        /\ \A j, k \in 1..Len(mts) : j < k =>
             \A a, b \in 1..Len(txs) :
               (txs[a].yearMonth = mts[j].yearMonth /\ txs[b].yearMonth = mts[k].yearMonth)
                 => MonthIndex(txs[a].date) < MonthIndex(txs[b].date)

(* the rows that fail normalization, in input order *)
FailingRows(rs) == SelectSeq(rs, LAMBDA r : ~IsEmptyRow(r) /\ ~Normalizes(r))

DecodeLineCount(k) == (IF k < MaxShownErrors THEN k ELSE MaxShownErrors) + (IF k > MaxShownErrors THEN 1 ELSE 0)

(* C7: after the decode-error lines, warnings holds exactly one warning    *)
(* per row that fails normalization, in input order; a row that normalizes *)
(* and is filtered out adds none and is counted in ignoredRows.            *)
C7_RowWarnings ==
  Done =>
    LET w == Res.summary.warnings
        d == DecodeLineCount(Len(parsed.errors))
        f == FailingRows(rows)
    IN  /\ Len(w) = d + Len(f)
        /\ \A j \in 1..Len(f) : w[d + j] = Normalized(f[j], tz).warning
        /\ Res.summary.ignoredRows >= Len(f) + Len(SelectSeq(rows, LAMBDA r : ~IsEmptyRow(r) /\ Normalizes(r) /\ ~Qualifies(r)))

(* after a decode-error line: a warning, nothing for the declined row,     *)
(* then a different warning                                                *)
C7_Witness ==
  /\ Done
  /\ Len(parsed.errors) = 1
  /\ Len(rows) = 3 /\ rows[2] = RowDeclined
  /\ Len(Res.summary.warnings) = 3
  /\ Res.summary.warnings[2] # Res.summary.warnings[3]
  /\ Res.summary.ignoredRows = 3

JustRan == pc = "loop" /\ idx > 1 /\ ~IsEmptyRow(LastRow)

DateTextOf(r) == IF "date" \in DOMAIN r THEN Trim(r["date"]) ELSE <<>>

NoAmount(r) == ~FiniteField(r, "accountAmount") /\ ~FiniteField(r, "USDAmount")

(* the warning the claim expects for each row and zone, {} for none *)
ExpectedWarning ==
  [z \in TimeZones |->
     [r \in Rows |->
        LET ds == DateTextOf(r)
        IN  IF IsEmptyRow(r) THEN {}
            ELSE IF ds = <<>> THEN {[warning |-> <<"Row missing date">>]}
            ELSE IF NewDate(ds, z, FALSE) = {} THEN {[warning |-> <<"Invalid date: ">> \o ds]}
            ELSE IF NoAmount(r) THEN {[warning |-> <<"Row missing amount fields for ">> \o ds]}
            ELSE {}]]

WarnedCount(rs) == Cardinality({j \in 1..Len(rs) : ExpectedWarning[tz][rs[j]] # {}})

(* C8: normalization checks the date's presence, then its validity, then   *)
(* the amount, and stops at the first failure with that check's warning; a *)
(* warned row is not among the transactions and is counted in ignoredRows. *)
C8_CheckOrder ==
  /\ JustRan =>
       IF ExpectedWarning[tz][LastRow] # {} THEN normalized = ExpectedWarning[tz][LastRow]
       ELSE \A n \in normalized : "warning" \notin DOMAIN n
  /\ Done =>
       /\ Len(Res.transactions) + WarnedCount(rows) <= Len(ReachedRows(rows))
       /\ Res.summary.ignoredRows >= WarnedCount(rows)

(* a row with a blank date and no usable amount got "Row missing date",    *)
(* after a row with an invalid date and no amount got "Invalid date"       *)
C8_Witness ==
  /\ JustRan
  /\ idx = 3
  /\ rows[1] = RowInvalidDate /\ rows[2] = RowMissingDate
  /\ normalized = {[warning |-> WarnMissingDate]}
  /\ Len(warnings) >= 2
  /\ warnings[Len(warnings) - 1] = <<"Invalid date: ", "n", "/", "a">>

C8_AmountWitness ==
  /\ JustRan
  /\ LastRow = RowMissingAmount
  /\ normalized = {[warning |-> <<"Row missing amount fields for ">> \o D_Jan05]}

ExpectedErrorLine(e) ==
  IF e.row = {} THEN e.code \o <<": ">> \o e.message
  ELSE e.code \o <<": ">> \o e.message \o <<" (row ">> \o NumStr(CHOOSE n \in e.row : TRUE) \o <<")">>

(* C9: with k decode errors the warnings start with the lines of the first *)
(* min(k, 10) errors in order, followed by "...and N more parse errors"    *)
(* with N = k - 10 exactly when k > 10; the rows processed are the         *)
(* decoder's rows whatever the errors.                                     *)
C9_DecodeErrorsCapped ==
  pc # "call" =>
    LET k == Len(parsed.errors)
        shown == IF k < 10 THEN k ELSE 10
    IN  /\ Len(warnings) >= shown
        /\ \A j \in 1..shown : warnings[j] = ExpectedErrorLine(parsed.errors[j])
        /\ k > 10 => /\ Len(warnings) >= 11
                     /\ warnings[11] = <<"...and ">> \o NumStr(k - 10) \o <<" more parse errors">>
        /\ Done => /\ Len(Res.summary.warnings) = shown + (IF k > 10 THEN 1 ELSE 0) + Len(FailingRows(rows))
                   /\ Res.summary.totalRows = Len(parsed.data)

(* twelve errors, one of them without a row number, and a row warning      *)
(* after the overflow line                                                 *)
C9_Witness ==
  /\ Done
  /\ Len(parsed.errors) = 12
  /\ parsed.errors[2].row = {}
  /\ Len(Res.summary.warnings) = 12
  /\ Res.summary.warnings[11] = <<"...and ", "2", " more parse errors">>
  /\ Res.summary.warnings[12] = WarnMissingDate

C9_ExactlyTenWitness ==
  Done /\ Len(parsed.errors) = 10 /\ Len(Res.summary.warnings) = 10

(* C10: a second invocation on the same text returns a structurally        *)
(* identical result, whatever the host's time zone.                        *)
C10_SameTextSameResult ==
  (Done /\ prev # {}) => result = prev

(* a colon directly followed by two digits, somewhere in s *)
RECURSIVE HasColonTwoDigits(_)
HasColonTwoDigits(s) ==
  IF Len(s) < 3 THEN FALSE
  ELSE (s[1] = ":" /\ IsDigit(s[2]) /\ IsDigit(s[3])) \/ HasColonTwoDigits(Tail(s))

(* two digits, a colon, two digits, somewhere in s *)
RECURSIVE HasHHMMToken(_)
HasHHMMToken(s) ==
  IF Len(s) < 5 THEN FALSE
  ELSE (IsDigit(s[1]) /\ IsDigit(s[2]) /\ s[3] = ":" /\ IsDigit(s[4]) /\ IsDigit(s[5]))
         \/ HasHHMMToken(Tail(s))

ColonTwoDigitsIn == [r \in TimeRows |-> HasColonTwoDigits(DateTextOf(r))]

HHMMTokenIn == [r \in TimeRows |-> HasHHMMToken(DateTextOf(r))]

(* the date, the bucket, the amount and the inclusion of the row that has  *)
(* just normalized are what its date text, amount fields, status and type  *)
(* give, whatever its hasTime                                              *)
HasTimeIsInert ==
  JustNormalized =>
    \A n \in normalized :
      /\ {n.date} = NewDate(DateTextOf(LastRow), tz, lenient)
      /\ n.yearMonth = yearMonthUtc(n.date)
      /\ n.amountUsd = ExpectedAmount[LastRow]
      /\ (\E j \in 1..Len(transactions) : transactions[j] = n)
           <=> (StatusOf(LastRow) = APPROVED /\ TypeOf(LastRow) \in {POS_TX, REFUND})

(* C12 as stated: hasTime is true exactly when the trimmed date string     *)
(* contains two digits, a colon and two digits, and it never changes the   *)
(* row's date, bucket, inclusion or amount.                                *)
C12_HasTimeIsHHMMToken ==
  /\ JustNormalized => \A n \in normalized : n.hasTime = HHMMTokenIn[LastRow]
  /\ HasTimeIsInert

(* C12 amended: hasTime is true exactly when the trimmed date string       *)
(* contains a colon directly followed by two digits (whatever precedes the *)
(* colon), and it never changes the row's date, bucket, inclusion or       *)
(* amount.                                                                 *)
C12_HasTimeIsColonTwoDigits ==
  /\ JustNormalized => \A n \in normalized : n.hasTime = ColonTwoDigitsIn[LastRow]
  /\ HasTimeIsInert

(* a row with a one-digit hour normalized with hasTime and went into the   *)
(* same bucket as an included row without a time                           *)
C12_Witness ==
  /\ JustNormalized
  /\ LastRow = RowOneDigitHour
  /\ Len(transactions) = 2
  /\ transactions[1].hasTime = FALSE /\ transactions[2].hasTime = TRUE
  /\ transactions[1].yearMonth = transactions[2].yearMonth
  /\ ~HHMMTokenIn[LastRow]

(* the stepwise run returns what the function as a whole is defined to *)
ReturnIsComputed == Done => Res = computeMonthlySpendFromCsvText(parsed, tz, lenient)

LastDelivered == uploads[delivered[Len(delivered)]]

(* C11: when the function throws for an uploaded file the App has an error *)
(* and no result (the earlier file's result is gone); result and error are *)
(* never both non-null; every delivery of a file resets the month          *)
(* selection to null.                                                      *)
C11_NoStaleResult ==
  /\ []((delivered # <<>> /\ LastDelivered.thrown # {}) => (error # {} /\ appResult = {}))
  /\ [](~(appResult # {} /\ error # {}))
  /\ [][delivered' # delivered => selectedYearMonth' = {}]_vars

(* a file that throws was delivered after one that gave a result *)
C11_Witness ==
  /\ Len(delivered) = 2
  /\ uploads[delivered[1]].thrown = {}
  /\ LastDelivered.thrown # {}
  /\ error = {<<"Unexpected end of input">>}
  /\ appResult = {}
  /\ selectedYearMonth = {}

(* C13: once every read has completed, the App shows the name and the      *)
(* result or error of the file uploaded last.                              *)
C13_LastUploadWins ==
  (uploads # <<>> /\ reads = {}) =>
    LET f == uploads[Len(uploads)]
    IN  /\ fileName = {f.name}
        /\ f.thrown = {} => /\ appResult = {computeMonthlySpendFromCsvText(f.parsed, tz, lenient)}
                            /\ error = {}
        /\ f.thrown # {} => appResult = {} /\ error # {}

====
